---- MODULE Spec2Model ----
(***************************************************************************)
(* LiveClient (src/services/liveClient.ts): the duplex media session of    *)
(* MamaAI.  One LiveClient object, its callers (connect, disconnect,       *)
(* switchCamera, startVideoLoop), the promises it awaits (AudioContext     *)
(* resume, getUserMedia) and the callbacks of the live channel (onopen,    *)
(* onmessage, onclose, onerror).  Every action is one JavaScript task: a   *)
(* caller's call up to its first await, the continuation of an await, or   *)
(* one channel callback.                                                   *)
(*                                                                         *)
(* Identities.  connect number k creates the input context 2k-1, the       *)
(* output context 2k, the stream 2k-1 and the channel k; switchCamera      *)
(* number j acquires the stream 2j.  0 is JavaScript's null.               *)
(*                                                                         *)
(* Time is counted in sample periods of the output device                  *)
(* (1/AUDIO_OUTPUT_SAMPLE_RATE s), so a decoded buffer of n samples lasts  *)
(* n units.                                                                *)
(*                                                                         *)
(* Several specifications share the life cycle (NextLife).  Spec is the    *)
(* life cycle alone; SpecEstablish adds the rejection of the channel's     *)
(* promise; SpecAgain is a client connected twice, with its messages;      *)
(* SpecPcm applies the sample conversions to bounded inputs.               *)
(* Of the others:                                                          *)
(* SpecPlayback adds the inbound messages, each handled in                 *)
(* one task (the await of handleServerMessage is on a promise that is      *)
(* already settled, so its continuation runs before any other task).       *)
(* SpecDecode takes that await as a step of its own, so that messages may  *)
(* arrive while decodes are pending.  SpecSend adds the outbound frames of *)
(* the audio tap and of the video timer.                                   *)
(***************************************************************************)
EXTENDS Integers, Sequences, FiniteSets, TLC

VARIABLES client, dev, net, tasks, ui, hist

vars == <<client, dev, net, tasks, ui, hist>>

(***************************************************************************)
(* Bounds of the model.                                                    *)
(***************************************************************************)
\* what the caller may spend per run: a connect() weighs two calls (it starts
\* three awaits and a channel), each of disconnect(), switchCamera() and
\* startVideoLoop() one
MaxCalls == 5
\* the same, per run of the playback specification
MaxPlayCalls == 2
\* the output device clock stops advancing here
MaxClock == 2
\* no segment is scheduled to end later than this
MaxSchedule == 4
\* largest decoded payload, in bytes
MaxBytes == 4
\* what the caller may spend per run of the outbound specification
MaxSendCalls == 4
\* the capture devices stop after this many frames (audio chunks and pictures)
MaxFrames == 3
\* what the caller may spend per run of the decoding specification
MaxDecodeCalls == 2
\* the channel stops after this many inbound messages
MaxArrivals == 2
\* calls of the twice-connected client (a connect() counts for two)
MaxAgainCalls == 5
\* calls of the client whose channel may be rejected
MaxEstablishCalls == 4
\* samples are whole + num / 2^bits, with |num| <= MaxNum and bits <= MaxBits
MaxNum == 3
MaxBits == 17

Ids == 1..(MaxCalls + MaxPlayCalls)

Max(a, b) == IF a >= b THEN a ELSE b

(***************************************************************************)
(* The four statuses, as the strings the client reports.                   *)
(***************************************************************************)
DISCONNECTED == "DISCONNECTED"
CONNECTING == "CONNECTING"
CONNECTED == "CONNECTED"
ERROR == "ERROR"

MsgFailed == "Failed to connect."
MsgDenied == "Camera/Microphone access denied. Please allow permissions."
MsgNotFound == "No camera or microphone found."
MsgChannel == "Connection to AI failed."
MsgSwitch == "Failed to switch camera."

\* what getUserMedia can answer
GumOutcomes == {"granted", "NotAllowedError", "NotFoundError", "NotReadableError"}

NoTap == [ctx |-> 0, stream |-> 0, chan |-> 0, origin |-> "none", n |-> 0]

(***************************************************************************)
(* The world a handler runs in: one record holding every variable, so that *)
(* a handler is the composition of the statements of its code.             *)
(***************************************************************************)
World == [client |-> client, dev |-> dev, net |-> net, tasks |-> tasks,
          ui |-> ui, hist |-> hist]

Becomes(w) ==
    /\ client' = w.client
    /\ dev' = w.dev
    /\ net' = w.net
    /\ tasks' = w.tasks
    /\ ui' = w.ui
    /\ hist' = w.hist

\* device handles open in the environment: streams, audio contexts, video timers
OpenHandles(w) ==
    Cardinality(w.dev.liveStreams) + Cardinality(w.dev.openCtx) + w.dev.timers

LastThree(s) == IF Len(s) > 3 THEN SubSeq(s, Len(s) - 2, Len(s)) ELSE s

\* this.onStatusChange(s): the caller sees the world as it is at the call
onStatusChange(w, s) ==
    [w EXCEPT !.ui.status = s,
              !.ui.statusLog = LastThree(Append(@, s)),
              !.ui.heldAtReport = (s \in {DISCONNECTED, ERROR}) /\ OpenHandles(w) > 0]

\* this.onError(message)
onError(w, msg) == [w EXCEPT !.ui.lastError = msg, !.ui.errors = @ + 1]

\* (fault: a cleanup that closes the input context only)
ClosedByCleanupLeak(w) == {w.client.inputAudioContext} \ {0}

\* the contexts cleanupResources closes
ClosedByCleanup(w) ==
    {w.client.inputAudioContext, w.client.outputAudioContext} \ {0}

cleanupResources(w) ==
    LET closed == ClosedByCleanup(w) IN
    [w EXCEPT !.dev.timers = IF w.client.videoInterval # 0 THEN @ - 1 ELSE @,
              !.dev.liveStreams = @ \ {w.client.stream},
              !.dev.openCtx = @ \ closed,
              !.dev.taps = {t \in @ : t.ctx \notin closed},
              !.client.videoInterval = 0,
              !.client.stream = 0,
              !.client.inputAudioContext = 0,
              !.client.outputAudioContext = 0]

\* (fault: onaudioprocess is never attached)
startAudioInputUnwired(w, k, origin, n) == w

\* startAudioInput(sessionPromise): a new source/processor pair on this.stream
startAudioInput(w, k, origin, n) ==
    IF w.client.inputAudioContext = 0 \/ w.client.stream = 0
    THEN w
    ELSE LET t == [ctx |-> w.client.inputAudioContext, stream |-> w.client.stream,
                   chan |-> k, origin |-> origin, n |-> n]
         IN [w EXCEPT !.client.inputSource = t,
                      !.dev.taps = @ \cup {t}]

\* (fault: one message for every failure that is not a denial)
CatchMessageGeneric(name) ==
    IF name = "NotAllowedError" THEN MsgDenied ELSE MsgFailed

\* what the catch block of connect says for an error name
CatchMessage(name) ==
    IF name = "NotAllowedError" THEN MsgDenied
    ELSE IF name = "NotFoundError" THEN MsgNotFound
    ELSE MsgFailed

\* the catch block of connect number k, entered with the error `name`
connectCatch(w, k, name) ==
    [cleanupResources(onStatusChange(onError(w, CatchMessage(name)), ERROR))
        EXCEPT !.tasks.connect[k] = [pc |-> "done", ctx |-> 0, error |-> name]]

\* the history keeps the name of the handler that ran last
Event(w, e) == [w EXCEPT !.hist.lastEvent = e]

Spend(w, cost) == [w EXCEPT !.tasks.budget = @ - cost]

\* a playback operation as the history keeps it: what was done, on which output
\* context, at which device clock, from which nextStartTime, with which result
NoPlay == [kind |-> "none", ctx |-> 0, clock |-> 0, before |-> 0, start |-> 0,
           dur |-> 0, afterFlag |-> FALSE]

\* what is kept of the operation before the last one
\* (cut: it was an interruption that found audio queued beyond the clock)
Before(rec) ==
    [kind |-> rec.kind, ctx |-> rec.ctx, until |-> rec.start + rec.dur,
     cut |-> rec.kind = "interrupt" /\ rec.before > rec.clock]

(***************************************************************************)
(* Samples.  A sample is the exact number whole + num / 2^bits (a float32  *)
(* is such a number, and its product with a 16-bit factor is exact in the  *)
(* double arithmetic of the code).                                         *)
(***************************************************************************)
Pow2(b) == 2 ^ b

Silence == [whole |-> 0, num |-> 0, bits |-> 0]

Samples ==
    {x \in [whole : -2..2, num : -MaxNum..MaxNum, bits : 0..MaxBits] :
        x.num = 0 \/ (x.num < Pow2(x.bits) /\ -x.num < Pow2(x.bits))}

\* x < 0, x < -1, x > 1
Negative(x) == x.whole * Pow2(x.bits) + x.num < 0
BelowMinusOne(x) == x.whole * Pow2(x.bits) + x.num < -Pow2(x.bits)
AboveOne(x) == x.whole * Pow2(x.bits) + x.num > Pow2(x.bits)

\* Math.max(-1, Math.min(1, x))
Clamp(x) ==
    IF AboveOne(x) THEN [whole |-> 1, num |-> 0, bits |-> 0]
    ELSE IF BelowMinusOne(x) THEN [whole |-> -1, num |-> 0, bits |-> 0]
    ELSE x

\* x * factor, as int + frac / 2^bits with 0 <= frac < 2^bits
Times(x, factor) ==
    [int |-> x.whole * factor + (x.num * factor) \div Pow2(x.bits),
     frac |-> (x.num * factor) % Pow2(x.bits),
     bits |-> x.bits]

\* the store of a number into an Int16Array element: the fraction is cut off
\* (toward zero) and the integer taken modulo 2^16 into -32768..32767
ToInt16(v) ==
    LET cut == IF v.int >= 0 \/ v.frac = 0 THEN v.int ELSE v.int + 1
    IN ((cut + 32768) % 65536) - 32768

\* the two factors of floatTo16BitPCM (0x8000, 0x7FFF) and the divisor of
\* decodeAudioData (32768.0)
NegativeScale == 32768
PositiveScale == 32767
DecodeScale == 32768

\* s < 0 ? s * 0x8000 : s * 0x7FFF, for the clamped sample s
Scaled(x) ==
    LET s == Clamp(x) IN
    IF Negative(s) THEN Times(s, NegativeScale) ELSE Times(s, PositiveScale)

\* floatTo16BitPCM, for one sample
floatTo16BitPCM(x) == ToInt16(Scaled(x))

\* decodeAudioData, for one sample: dataInt16[i] / 32768.0 (2^15)
pcm16ToFloat(v) == [whole |-> 0, num |-> v, bits |-> 15]

(***************************************************************************)
(* Initial state: a constructed LiveClient, and the caller's status sink   *)
(* at DISCONNECTED.                                                        *)
(***************************************************************************)
InitWith(budget) ==
    /\ client = [session |-> 0, inputAudioContext |-> 0, outputAudioContext |-> 0,
                 outputNode |-> FALSE, inputSource |-> NoTap, nextStartTime |-> 0,
                 videoInterval |-> 0, stream |-> 0, currentFacingMode |-> "environment"]
    /\ dev = [openCtx |-> {}, allCtx |-> {}, liveStreams |-> {}, allStreams |-> {},
              taps |-> {}, timers |-> 0, clock |-> 0]
    /\ net = [chan |-> [k \in Ids |-> "none"], closeReq |-> {},
              outbox |-> [k \in Ids |-> <<>>], received |-> [k \in Ids |-> <<>>],
              captured |-> 0]
    /\ tasks = [connect |-> [k \in Ids |-> [pc |-> "idle", ctx |-> 0, error |-> ""]],
                switch |-> [j \in Ids |-> "idle"],
                decoding |-> <<>>,
                nConnect |-> 0, nSwitch |-> 0, nDisconnect |-> 0,
                budget |-> budget]
    /\ ui = [status |-> DISCONNECTED, statusLog |-> <<DISCONNECTED>>,
             lastError |-> "", errors |-> 0, heldAtReport |-> FALSE]
    /\ hist = [lastEvent |-> "init",
               midConnectDisconnect |-> FALSE,
               prevMsgInterrupted |-> FALSE,
               last |-> NoPlay, prev |-> Before(NoPlay),
               arrivals |-> 0, sched |-> <<>>,
               pcm |-> [stage |-> "idle", x |-> Silence, out |-> 0, back |-> Silence]]

Init == InitWith(MaxCalls)

(***************************************************************************)
(* connect(recipeContext)                                                  *)
(***************************************************************************)
\* the call, up to `await this.inputAudioContext.resume()`
connectCall(w) ==
    LET k == w.tasks.nConnect + 1
        w1 == onStatusChange(w, CONNECTING)
    IN [w1 EXCEPT !.client.inputAudioContext = 2 * k - 1,
                  !.client.outputAudioContext = 2 * k,
                  !.client.outputNode = TRUE,
                  !.dev.openCtx = @ \cup {2 * k - 1, 2 * k},
                  !.dev.allCtx = @ \cup {2 * k - 1, 2 * k},
                  !.dev.clock = 0,
                  !.tasks.nConnect = k,
                  !.tasks.connect[k] = [pc |-> "resumeIn", ctx |-> 2 * k - 1, error |-> ""]]

Connect ==
    /\ tasks.budget >= 2
    /\ Becomes(Event(Spend(connectCall(World), 2), "connect"))

\* after `await this.inputAudioContext.resume()`: this.outputAudioContext.resume()
\* is called on whatever the field holds now; on null it throws a TypeError
connectResumedIn(w, k, ok) ==
    IF ~ok \/ w.client.outputAudioContext = 0
    THEN connectCatch(w, k, IF ok THEN "TypeError" ELSE "InvalidStateError")
    ELSE [w EXCEPT !.tasks.connect[k] =
                       [pc |-> "resumeOut", ctx |-> w.client.outputAudioContext,
                        error |-> ""]]

\* resume() of a running context resolves; of a closed one it may reject
ResumeOutcomes(w, k) ==
    IF w.tasks.connect[k].ctx \in w.dev.openCtx THEN {TRUE} ELSE {TRUE, FALSE}

ConnectResumedIn(k) ==
    /\ tasks.connect[k].pc = "resumeIn"
    /\ \E ok \in ResumeOutcomes(World, k) :
          LET w == connectResumedIn(World, k, ok) IN
          Becomes(Event(w, IF w.tasks.connect[k].pc = "done" THEN "connectCatch"
                           ELSE "connectResumedIn"))

\* after `await this.outputAudioContext.resume()`: initStream() calls getUserMedia
connectResumedOut(w, k, ok) ==
    IF ~ok
    THEN connectCatch(w, k, "InvalidStateError")
    ELSE [w EXCEPT !.tasks.connect[k] = [pc |-> "gum", ctx |-> 0, error |-> ""]]

ConnectResumedOut(k) ==
    /\ tasks.connect[k].pc = "resumeOut"
    /\ \E ok \in ResumeOutcomes(World, k) :
          Becomes(Event(connectResumedOut(World, k, ok),
                        IF ok THEN "connectResumedOut" ELSE "connectCatch"))

\* getUserMedia settles: this.stream is assigned, the channel is requested and
\* this.session holds its promise; or the catch block runs
connectGotStream(w, k, outcome) ==
    IF outcome = "granted"
    THEN [w EXCEPT !.tasks.connect[k] = [pc |-> "done", ctx |-> 0, error |-> ""],
                    !.client.stream = 2 * k - 1,
                    !.dev.liveStreams = @ \cup {2 * k - 1},
                    !.dev.allStreams = @ \cup {2 * k - 1},
                    !.net.chan[k] = "pending",
                    !.client.session = k]
    ELSE connectCatch(w, k, outcome)

ConnectGotStream(k) ==
    /\ tasks.connect[k].pc = "gum"
    /\ \E outcome \in GumOutcomes :
          Becomes(Event(connectGotStream(World, k, outcome),
                        IF outcome = "granted" THEN "connectGotStream" ELSE "connectCatch"))

(***************************************************************************)
(* disconnect()                                                            *)
(***************************************************************************)
\* this.session.then(s => s.close()): an open channel starts closing now, a
\* pending one as soon as its promise resolves
requestClose(w) ==
    IF w.client.session = 0 THEN w
    ELSE LET k == w.client.session IN
         [w EXCEPT !.net.closeReq = @ \cup {k},
                   !.net.chan[k] = IF @ = "open" THEN "closing" ELSE @,
                   !.client.session = 0]

\* (fault: a disconnect that forgets cleanupResources)
disconnectWithoutCleanup(w) == onStatusChange(requestClose(w), DISCONNECTED)

disconnect(w) == onStatusChange(cleanupResources(requestClose(w)), DISCONNECTED)

Disconnect ==
    /\ tasks.budget > 0
    /\ LET w == Event(Spend(disconnect(World), 1), "disconnect") IN
       Becomes([w EXCEPT !.tasks.nDisconnect = @ + 1,
                         !.hist.midConnectDisconnect =
                             @ \/ ui.status = CONNECTING])

(***************************************************************************)
(* The channel's callbacks (the callbacks object given to ai.live.connect)  *)
(***************************************************************************)
\* (fault: the callbacks queued on the promise run last-registered first)
ResolvedLastFirst(got, queued) ==
    got \o [i \in 1..Len(queued) |-> queued[Len(queued) + 1 - i]]

\* the promise resolves: the then-callbacks registered while it was pending
\* run in the order of their registration, each sending its frame
Resolved(got, queued) == got \o queued

\* onopen, then the session promise resolves: the sends queued on it run, and
\* after them a queued close()
chanOpen(w, k) ==
    LET w1 == startAudioInput(onStatusChange(w, CONNECTED), k, "onopen", k) IN
    [w1 EXCEPT !.net.received[k] = Resolved(@, w.net.outbox[k]),
               !.net.outbox[k] = <<>>,
               !.net.chan[k] = IF k \in w.net.closeReq THEN "closing" ELSE "open"]

ChanOpen(k) ==
    /\ net.chan[k] = "pending"
    /\ Becomes(Event(chanOpen(World, k), "onopen"))

\* onclose: the server closed the channel, a requested close completed, or the
\* socket closes after its failure
chanClose(w, k) ==
    [cleanupResources(onStatusChange(w, DISCONNECTED)) EXCEPT !.net.chan[k] = "closed"]

ChanClose(k) ==
    /\ net.chan[k] \in {"open", "closing", "failed"}
    /\ Becomes(Event(chanClose(World, k), "onclose"))

\* (fault: an onerror that tries the channel again)
chanErrorRetries(w, k) ==
    [onStatusChange(w, CONNECTING) EXCEPT !.net.chan[k] = "pending"]

\* onerror: a transport failure; the socket's close event follows it, and
\* callbacks still queued on the session promise never run
chanError(w, k) ==
    [cleanupResources(onStatusChange(onError(w, MsgChannel), ERROR))
        EXCEPT !.net.chan[k] = "failed",
               !.net.outbox[k] = <<>>]

ChanError(k) ==
    /\ net.chan[k] \in {"pending", "open"}
    /\ Becomes(Event(chanError(World, k), "onerror"))

(***************************************************************************)
(* switchCamera(videoElement)                                              *)
(***************************************************************************)
\* (fault: the facing mode is left as it is)
FlipStuck(mode) == mode

Flip(mode) == IF mode = "user" THEN "environment" ELSE "user"

\* the call, up to `await this.initStream()`: the tracks of this.stream are
\* stopped (the field keeps the stopped stream) and the facing mode toggles
switchCall(w) ==
    LET j == w.tasks.nSwitch + 1 IN
    [w EXCEPT !.dev.liveStreams = @ \ {w.client.stream},
              !.client.currentFacingMode = Flip(@),
              !.tasks.nSwitch = j,
              !.tasks.switch[j] = "gum"]

SwitchCamera ==
    /\ tasks.budget >= 1
    /\ Becomes(Event(Spend(switchCall(World), 1), "switchCamera"))

\* (fault: a failed switch that ends the session)
switchCatchReportsError(w) == onStatusChange(onError(w, MsgSwitch), ERROR)

\* the catch block of switchCamera: the message, and nothing else
switchCatch(w) == onError(w, MsgSwitch)

\* getUserMedia settles: this.stream is assigned and, with a session and an
\* input context, the old source/processor are disconnected and a new tap made
switchGotStream(w, j, outcome) ==
    LET w0 == [w EXCEPT !.tasks.switch[j] = "done"] IN
    IF outcome = "granted"
    THEN LET w1 == [w0 EXCEPT !.client.stream = 2 * j,
                              !.dev.liveStreams = @ \cup {2 * j},
                              !.dev.allStreams = @ \cup {2 * j}]
         IN IF w1.client.session # 0 /\ w1.client.inputAudioContext # 0
            THEN startAudioInput(
                     [w1 EXCEPT !.dev.taps = @ \ {w1.client.inputSource}],
                     w1.client.session, "switch", j)
            ELSE w1
    ELSE switchCatch(w0)

SwitchGotStream(j) ==
    /\ tasks.switch[j] = "gum"
    /\ \E outcome \in GumOutcomes :
          Becomes(Event(switchGotStream(World, j, outcome),
                        IF outcome = "granted" THEN "switchGotStream" ELSE "switchCatch"))

(***************************************************************************)
(* startVideoLoop(videoElement)                                            *)
(***************************************************************************)
\* no stream: return; else clear the running interval and set a new one
startVideoLoop(w) ==
    IF w.client.stream = 0 THEN w
    ELSE [w EXCEPT !.dev.timers = (IF w.client.videoInterval # 0 THEN @ - 1 ELSE @) + 1,
                   !.client.videoInterval = 1]

StartVideoLoop ==
    /\ tasks.budget >= 1
    /\ Becomes(Event(Spend(startVideoLoop(World), 1), "startVideoLoop"))

NextLife ==
    \/ Connect
    \/ Disconnect
    \/ SwitchCamera
    \/ StartVideoLoop
    \/ \E j \in Ids : SwitchGotStream(j)
    \/ \E k \in Ids : ConnectResumedIn(k)
    \/ \E k \in Ids : ConnectResumedOut(k)
    \/ \E k \in Ids : ConnectGotStream(k)
    \/ \E k \in Ids : ChanOpen(k)
    \/ \E k \in Ids : ChanClose(k)
    \/ \E k \in Ids : ChanError(k)

Spec == Init /\ [][NextLife]_vars

(***************************************************************************)
(* Inbound messages: handleServerMessage                                   *)
(***************************************************************************)
\* serverContent.modelTurn.parts[0].inlineData.data: absent, not base64, or the
\* base64 text of `bytes` bytes
NoAudio == [kind |-> "absent", bytes |-> 0]
Payloads ==
    {NoAudio, [kind |-> "malformed", bytes |-> 0]}
        \cup {[kind |-> "pcm", bytes |-> n] : n \in 0..MaxBytes}
Messages == [audio : Payloads, interrupted : BOOLEAN]

\* `audioData &&`: the empty string (the base64 text of no bytes) is falsy
HasAudio(p) == p.kind = "malformed" \/ (p.kind = "pcm" /\ p.bytes > 0)

\* base64ToArrayBuffer then decodeAudioData: atob throws on text that is not
\* base64, Int16Array on an odd byte length
DecodeOk(p) == p.kind = "pcm" /\ p.bytes % 2 = 0 /\ p.bytes > 0

\* audioBuffer.duration, in sample periods: one 16-bit sample per two bytes
Duration(p) == p.bytes \div 2

\* (fault: an interruption that leaves the queue as it is)
InterruptKeepsQueue(now, next) == next

\* the interruption branch: this.nextStartTime = currentTime
InterruptReset(now, next) == now

\* (fault: the earlier of the two instead of the later)
StartAtMin(now, next) == IF now <= next THEN now ELSE next

\* Math.max(currentTime, this.nextStartTime)
StartAt(now, next) == Max(now, next)

\* (fault: the next start counted from the clock, not from the start time)
NextAfterIgnoresStart(now, start, dur) == now + dur

\* this.nextStartTime = startTime + audioBuffer.duration
NextAfter(now, start, dur) == start + dur

\* the record of the operation a message caused
Play(w, kind, start, dur) ==
    [kind |-> kind, ctx |-> w.client.outputAudioContext, clock |-> w.dev.clock,
     before |-> w.client.nextStartTime, start |-> start, dur |-> dur,
     afterFlag |-> w.hist.prevMsgInterrupted]

\* the history after a message: its handler's name, and its operation if any
Played(w, e, rec) ==
    [w EXCEPT !.hist.lastEvent = e,
              !.hist.prev = IF rec.kind = "none" THEN @ ELSE Before(w.hist.last),
              !.hist.last = IF rec.kind = "none" THEN @ ELSE rec]

\* (fault: a decode failure handled like a failure of the session)
decodeCatchEndsSession(w) ==
    Played(cleanupResources(onStatusChange(onError(w, MsgFailed), ERROR)),
           "decodeError", NoPlay)

\* catch (e) { console.error("Audio decode error", e) }
decodeCatch(w) == Played(w, "decodeError", NoPlay)

handleServerMessage(w, m) ==
    IF HasAudio(m.audio) /\ w.client.outputAudioContext # 0 /\ w.client.outputNode
    THEN IF m.interrupted
         THEN Played([w EXCEPT !.client.nextStartTime =
                                   InterruptReset(w.dev.clock, w.client.nextStartTime)],
                     "interrupt",
                     Play(w, "interrupt",
                          InterruptReset(w.dev.clock, w.client.nextStartTime), 0))
         ELSE IF DecodeOk(m.audio)
              THEN LET start == StartAt(w.dev.clock, w.client.nextStartTime)
                       dur == Duration(m.audio)
                   IN Played([w EXCEPT !.client.nextStartTime =
                                           NextAfter(w.dev.clock, start, dur)],
                             "enqueue", Play(w, "enqueue", start, dur))
              ELSE decodeCatch(w)
    ELSE Played(w, "ignored", NoPlay)

\* onmessage on a channel that is open (or closing: frames already in flight)
ChanMessage(k) ==
    /\ net.chan[k] \in {"open", "closing"}
    /\ \E m \in Messages :
          LET w == handleServerMessage(World, m) IN
          /\ w.client.nextStartTime <= MaxSchedule
          /\ Becomes([w EXCEPT !.hist.prevMsgInterrupted = m.interrupted])

\* the output device renders: currentTime of the running output context advances
Tick ==
    /\ client.outputAudioContext # 0
    /\ dev.clock < MaxClock
    /\ Becomes(Event([World EXCEPT !.dev.clock = @ + 1], "render"))

InitPlayback == InitWith(MaxPlayCalls)

NextPlayback ==
    \/ NextLife
    \/ \E k \in Ids : ChanMessage(k)
    \/ Tick

SpecPlayback == InitPlayback /\ [][NextPlayback]_vars

(***************************************************************************)
(* Channel establishment that fails by rejection: the promise returned by  *)
(* ai.live.connect is stored, never awaited, and no handler is attached to *)
(* its rejection.                                                          *)
(***************************************************************************)
\* the session promise rejects: no callback of the channel runs, the callbacks
\* queued on the promise never run, and no line of the client runs either
chanReject(w, k) ==
    [w EXCEPT !.net.chan[k] = "rejected",
              !.net.outbox[k] = <<>>]

ChanReject(k) ==
    /\ net.chan[k] = "pending"
    /\ Becomes(Event(chanReject(World, k), "rejected"))

InitEstablish == InitWith(MaxEstablishCalls)

NextEstablish ==
    \/ NextLife
    \/ \E k \in Ids : ChanReject(k)

SpecEstablish == InitEstablish /\ [][NextEstablish]_vars

(***************************************************************************)
(* A client that is connected, disconnected and connected again, with the  *)
(* messages of both sessions: the calls and callbacks of sessions that run *)
(* their course (no switchCamera, no transport failure).                   *)
(***************************************************************************)
\* the messages of these sessions: one sample of audio each, interrupting or not
Segments == {m \in Messages : m.audio = [kind |-> "pcm", bytes |-> 2]}

ChanSegment(k) ==
    /\ net.chan[k] \in {"open", "closing"}
    /\ \E m \in Segments :
          LET w == handleServerMessage(World, m) IN
          /\ w.client.nextStartTime <= MaxSchedule
          /\ Becomes([w EXCEPT !.hist.prevMsgInterrupted = m.interrupted])

InitAgain == InitWith(MaxAgainCalls)

NextAgain ==
    \/ Connect
    \/ Disconnect
    \/ \E k \in Ids : ConnectResumedIn(k)
    \/ \E k \in Ids : ConnectResumedOut(k)
    \/ \E k \in Ids : ConnectGotStream(k)
    \/ \E k \in Ids : ChanOpen(k)
    \/ \E k \in Ids : ChanClose(k)
    \/ \E k \in Ids : ChanSegment(k)
    \/ Tick

SpecAgain == InitAgain /\ [][NextAgain]_vars

(***************************************************************************)
(* Inbound messages, with the await of handleServerMessage as a step: the  *)
(* handler runs up to `await this.decodeAudioData(...)`, and its           *)
(* continuation runs later, after the continuations queued before it;      *)
(* other messages may arrive in between.                                   *)
(***************************************************************************)
\* (fault: the continuation queued last runs first)
ResumeOrderLastFirst(q) == [i \in 1..Len(q) |-> q[Len(q) + 1 - i]]

\* the order in which the queued continuations run: that of their awaits
ResumeOrder(q) == q

\* what the history keeps of the segments scheduled since the last
\* interruption: the last two, each with the number of its message, its start,
\* its duration and the number of continuations that were waiting behind it
LastTwo(s) == IF Len(s) > 2 THEN Tail(s) ELSE s

\* the handler up to its await, for inbound message number n: the `if`, the
\* interruption branch, base64ToArrayBuffer (which throws into the catch
\* block) and the call of decodeAudioData, whose promise rejects when
\* Int16Array throws
handleArrival(w, m) ==
    LET n == w.hist.arrivals + 1
        w0 == [w EXCEPT !.hist.arrivals = n]
    IN IF HasAudio(m.audio) /\ w.client.outputAudioContext # 0 /\ w.client.outputNode
       THEN IF m.interrupted
            THEN Event([w0 EXCEPT !.client.nextStartTime =
                                      InterruptReset(w.dev.clock, w.client.nextStartTime),
                                  !.hist.sched = <<>>],
                       "interrupt")
            ELSE IF m.audio.kind = "malformed"
                 THEN decodeCatch(w0)
                 ELSE [Event(w0, "decoding") EXCEPT
                          !.tasks.decoding =
                              Append(@, [n |-> n, ok |-> DecodeOk(m.audio),
                                         dur |-> Duration(m.audio)])]
       ELSE Event(w0, "ignored")

\* the handler after its await, for the continuation c: a rejected decode and
\* a null this.outputAudioContext throw into the catch block; else the buffer
\* is started at max(currentTime, nextStartTime)
handleDecoded(w, c) ==
    IF ~c.ok \/ w.client.outputAudioContext = 0
    THEN decodeCatch(w)
    ELSE LET start == StartAt(w.dev.clock, w.client.nextStartTime) IN
         Event([w EXCEPT !.client.nextStartTime = NextAfter(w.dev.clock, start, c.dur),
                         !.hist.sched =
                             LastTwo(Append(@, [n |-> c.n, start |-> start,
                                                dur |-> c.dur,
                                                pending |-> Len(w.tasks.decoding)]))],
               "enqueue")

ChanArrival(k) ==
    /\ net.chan[k] \in {"open", "closing"}
    /\ hist.arrivals < MaxArrivals
    /\ \E m \in Messages : Becomes(handleArrival(World, m))

Decoded ==
    /\ tasks.decoding # <<>>
    /\ LET q == ResumeOrder(tasks.decoding)
           w == handleDecoded([World EXCEPT !.tasks.decoding = Tail(q)], Head(q))
       IN /\ w.client.nextStartTime <= MaxSchedule
          /\ Becomes(w)

InitDecode == InitWith(MaxDecodeCalls)

NextDecode ==
    \/ NextLife
    \/ \E k \in Ids : ChanArrival(k)
    \/ Decoded
    \/ Tick

SpecDecode == InitDecode /\ [][NextDecode]_vars

(***************************************************************************)
(* Outbound frames: the audio tap and the video timer                      *)
(***************************************************************************)
AUDIO_INPUT_SAMPLE_RATE == 16000

\* "audio/pcm;rate=" + AUDIO_INPUT_SAMPLE_RATE
AudioMime == "audio/pcm;rate=" \o ToString(AUDIO_INPUT_SAMPLE_RATE)
VideoMime == "image/jpeg"

\* promise.then(s => s.sendRealtimeInput({media})).catch(() => {}) for the
\* promise of channel k.  A frame is numbered by its capture and keeps the
\* state the channel was in at the capture.  On a pending promise the callback
\* is queued (behind a close() that disconnect() queued before it, after which
\* the socket discards it); on a resolved one it runs now, and the socket
\* takes the frame while it is open and discards it otherwise.
sendRealtimeInput(w, k, mime) ==
    LET f == [seq |-> w.net.captured + 1, mime |-> mime, at |-> w.net.chan[k]]
        w1 == [w EXCEPT !.net.captured = @ + 1]
    IN IF w.net.chan[k] = "pending" /\ k \notin w.net.closeReq
       THEN [w1 EXCEPT !.net.outbox[k] = Append(@, f)]
       ELSE IF w.net.chan[k] = "open"
            THEN [w1 EXCEPT !.net.received[k] = Append(@, f)]
            ELSE w1

\* processor.onaudioprocess of the tap t: one chunk of the input device
audioProcess(w, t) == sendRealtimeInput(w, t.chan, AudioMime)

AudioProcess(t) ==
    /\ net.captured < MaxFrames
    /\ Becomes(Event(audioProcess(World, t), "audioProcess"))

\* (fault: a tick that sends whatever the canvas holds)
videoTickUnguarded(w, hasPicture) ==
    IF w.client.session = 0 THEN w
    ELSE sendRealtimeInput(w, w.client.session, VideoMime)

\* the callback of the video interval: nothing without a picture or a session
videoTick(w, hasPicture) ==
    IF ~hasPicture \/ w.client.session = 0 THEN w
    ELSE sendRealtimeInput(w, w.client.session, VideoMime)

VideoTick ==
    /\ client.videoInterval # 0
    /\ net.captured < MaxFrames
    /\ \E hasPicture \in BOOLEAN :
          LET w == videoTick(World, hasPicture) IN
          Becomes(Event(w, IF w.net.captured = net.captured THEN "videoSkip"
                           ELSE "videoTick"))

InitSend == InitWith(MaxSendCalls)

NextSend ==
    \/ NextLife
    \/ \E t \in dev.taps : AudioProcess(t)
    \/ VideoTick

SpecSend == InitSend /\ [][NextSend]_vars

(***************************************************************************)
(* One sample through the two conversions: the input device produces it,   *)
(* floatTo16BitPCM converts it for the outbound frame, and what the remote *)
(* end would play of it is its decodeAudioData.                            *)
(***************************************************************************)
Sampled(x) ==
    /\ hist.pcm.stage \in {"idle", "float"}
    /\ Becomes([World EXCEPT !.hist.pcm =
                                 [stage |-> "sample", x |-> x, out |-> 0,
                                  back |-> Silence]])

Converted ==
    /\ hist.pcm.stage = "sample"
    /\ Becomes([World EXCEPT !.hist.pcm.stage = "pcm16",
                             !.hist.pcm.out = floatTo16BitPCM(hist.pcm.x)])

DecodedBack ==
    /\ hist.pcm.stage = "pcm16"
    /\ Becomes([World EXCEPT !.hist.pcm.stage = "float",
                             !.hist.pcm.back = pcm16ToFloat(hist.pcm.out)])

InitPcm == InitWith(0)

NextPcm ==
    \/ \E x \in Samples : Sampled(x)
    \/ Converted
    \/ DecodedBack

SpecPcm == InitPcm /\ [][NextPcm]_vars

(***************************************************************************)
(* Properties of the session life cycle (checked under Spec)               *)
(***************************************************************************)
PendingConnects == {k \in Ids : tasks.connect[k].pc \in {"resumeIn", "resumeOut", "gum"}}
PendingSwitches == {j \in Ids : tasks.switch[j] = "gum"}
\* channels that are not closed
LiveChannels == {k \in Ids : net.chan[k] \in {"pending", "open", "closing", "failed"}}
\* no continuation is waiting and no channel owes a callback
Quiescent ==
    /\ PendingConnects = {}
    /\ PendingSwitches = {}
    /\ \A k \in Ids : net.chan[k] \in {"none", "open", "closed"}

\* C1: after a disconnect() called while the only connect() was still
\* Connecting, once nothing of that connect is pending, every device handle is
\* released, the channel is closed and the reported status is DISCONNECTED.
C1_DisconnectWhileConnecting ==
    (/\ hist.midConnectDisconnect
     /\ tasks.nConnect = 1
     /\ tasks.nSwitch = 0
     /\ Quiescent)
        => (/\ ui.status = DISCONNECTED
            /\ OpenHandles(World) = 0
            /\ LiveChannels = {})

\* C2: whenever the reported status is DISCONNECTED or ERROR, no device handle
\* was open at the moment of the report and none is open now (one connect(), no
\* switchCamera(): the exit paths of a single session).
C2_ReleasedBeforeReport ==
    (tasks.nConnect <= 1 /\ tasks.nSwitch = 0 /\ ui.status \in {DISCONNECTED, ERROR})
        => (~ui.heldAtReport /\ OpenHandles(World) = 0)

\* C3: there is never more than one live set of device handles (one stream, one
\* input and one output context) and one channel that is not closed, whatever
\* the caller's sequence of connect() and disconnect() calls.
C3_OneSession ==
    tasks.nSwitch = 0
        => (/\ Cardinality(dev.liveStreams) <= 1
            /\ Cardinality(dev.openCtx) <= 2
            /\ Cardinality(LiveChannels) <= 1)

\* the scenario of C4: one connect() on a fresh client, no other call that
\* reports a status or acquires a device, and getUserMedia refused
C4_Denied ==
    /\ tasks.nConnect = 1
    /\ tasks.nSwitch = 0
    /\ tasks.nDisconnect = 0
    /\ tasks.connect[1].error = "NotAllowedError"

\* C4: when device access is denied during connect(), the statuses reported are
\* DISCONNECTED, CONNECTING, ERROR, the message is the permission-denied one,
\* no channel was requested, and every handle acquired (both audio contexts)
\* is released.
C4_DeniedAccess ==
    C4_Denied
        => (/\ ui.statusLog = <<DISCONNECTED, CONNECTING, ERROR>>
            /\ ui.lastError = MsgDenied
            /\ \A k \in Ids : net.chan[k] = "none"
            /\ dev.allCtx = {1, 2}
            /\ OpenHandles(World) = 0)

C4_DeniedReached == C4_Denied /\ ui.status = ERROR /\ dev.allCtx # {}

\* C5: once ERROR is reported (single connect), the status changes only in a
\* step in which the caller calls connect() or disconnect().
C5_ErrorTerminal ==
    [][(tasks.nConnect = 1 /\ ui.status = ERROR /\ ui'.status # ERROR)
          => hist'.lastEvent \in {"connect", "disconnect"}]_vars

\* C10: during a session (one connect(), status CONNECTING or CONNECTED) at
\* most one media stream is un-stopped, however switchCamera() calls overlap.
C10_OneStreamHeld ==
    (tasks.nConnect = 1 /\ ui.status \in {CONNECTING, CONNECTED})
        => Cardinality(dev.liveStreams) <= 1

\* C11: a switchCamera() invoked while the status is DISCONNECTED or ERROR
\* acquires no device handle and leaves none open; in particular, before any
\* connect() (the status is DISCONNECTED throughout) no stream is ever acquired.
C11_NoSwitchOutsideSession ==
    (tasks.nConnect = 0 /\ ui.status = DISCONNECTED)
        => (dev.allStreams = {} /\ OpenHandles(World) = 0)

\* the steps of a switchCamera(): its call and the two ends of its await
C12_SwitchEvents == {"switchCamera", "switchGotStream", "switchCatch"}

\* C12: no step of switchCamera() reports a status: the status and the log of
\* reports are after the step what they were before it, and a failed switch
\* surfaces the switch message (and only that).
C12_SwitchKeepsStatus ==
    [][hist'.lastEvent \in C12_SwitchEvents
          => (/\ ui'.status = ui.status
              /\ ui'.statusLog = ui.statusLog
              /\ ui'.heldAtReport = ui.heldAtReport
              /\ hist'.lastEvent = "switchCatch" => ui'.lastError = MsgSwitch
              /\ hist'.lastEvent # "switchCatch" => ui'.lastError = ui.lastError)]_vars

\* a switch failed while the session was connected
C12_FailedWhileConnected ==
    /\ hist.lastEvent = "switchCatch"
    /\ ui.status = CONNECTED
    /\ ui.lastError = MsgSwitch

\* the connect() calls whose catch block runs in the step
C15_Caught(t, tn) ==
    {k \in Ids : t.connect[k].pc # "done" /\ tn.connect[k].pc = "done"
                   /\ tn.connect[k].error # ""}

\* C15: the status becomes ERROR only in a catch block of connect() or in a
\* channel's onerror; each of these steps reports ERROR whatever the status
\* was, and surfaces exactly one message: the denial message exactly for a
\* NotAllowedError, the no-device message exactly for a NotFoundError, a
\* connection-failure message for every other failure and for the channel.
C15_OneMessagePerError ==
    [][/\ (ui'.status = ERROR /\ ui.status # ERROR)
            => hist'.lastEvent \in {"connectCatch", "onerror"}
       /\ hist'.lastEvent = "onerror"
            => (ui'.status = ERROR /\ ui'.errors = ui.errors + 1
                /\ ui'.lastError = MsgChannel)
       /\ hist'.lastEvent = "connectCatch"
            => (/\ ui'.status = ERROR
                /\ ui'.errors = ui.errors + 1
                /\ \E k \in C15_Caught(tasks, tasks') :
                      LET name == tasks'.connect[k].error IN
                      /\ (ui'.lastError = MsgDenied) <=> (name = "NotAllowedError")
                      /\ (ui'.lastError = MsgNotFound) <=> (name = "NotFoundError")
                      /\ (ui'.lastError = MsgFailed)
                            <=> (name \notin {"NotAllowedError", "NotFoundError"}))
       /\ {MsgDenied, MsgNotFound} \cap {MsgFailed, MsgChannel} = {}
      ]_vars

\* no camera or microphone: one message, the no-device one, and ERROR
C15_NoDeviceReported ==
    /\ hist.lastEvent = "connectCatch"
    /\ tasks.connect[1].error = "NotFoundError"
    /\ ui.status = ERROR
    /\ ui.errors = 1
    /\ ui.lastError = MsgNotFound

\* channels ever requested from the remote service
C16_Attempts == {k \in Ids : net.chan[k] # "none"}

\* the only connect() ended by a device failure, a channel error or a close
C16_SessionEnded ==
    /\ tasks.nConnect = 1
    /\ (tasks.connect[1].error # "" \/ net.chan[1] \in {"failed", "closed"})

\* C16: nothing is retried.  No more channels are requested than connect() was
\* called.  CONNECTING is reported only by a connect() call, CONNECTED only by
\* the onopen of a pending channel; a channel that failed or closed never
\* opens again; audio contexts are created only in a connect() call, a channel
\* is requested only by the continuation of one, a stream is acquired only by
\* the continuation of a connect() or switchCamera() call; and once the only
\* session ended, the status becomes CONNECTING or CONNECTED only by connect().
C16_NoAutomaticRetry ==
    /\ [](Cardinality(C16_Attempts) <= tasks.nConnect)
    /\ [][/\ (ui'.status = CONNECTING /\ ui.status # CONNECTING)
               => hist'.lastEvent = "connect"
          /\ (ui'.status = CONNECTED /\ ui.status # CONNECTED)
               => (/\ hist'.lastEvent = "onopen"
                   /\ \E k \in Ids : net.chan[k] = "pending" /\ net'.chan[k] # "pending")
          /\ \A k \in Ids :
               /\ net.chan[k] \in {"failed", "closed"}
                     => net'.chan[k] \in {"failed", "closed"}
               /\ (net.chan[k] = "none" /\ net'.chan[k] # "none")
                     => (hist'.lastEvent = "connectGotStream" /\ k <= tasks.nConnect)
          /\ dev'.allCtx # dev.allCtx => hist'.lastEvent = "connect"
          /\ dev'.allStreams # dev.allStreams
               => hist'.lastEvent \in {"connectGotStream", "switchGotStream"}
          /\ (C16_SessionEnded /\ ui'.status # ui.status
                 /\ ui'.status \in {CONNECTING, CONNECTED})
               => hist'.lastEvent = "connect"
         ]_vars

\* the session ended by a channel error after it was open, its socket closed,
\* and nothing is pending or was acquired since
C16_EndedByChannelError ==
    /\ C16_SessionEnded
    /\ tasks.nSwitch = 0
    /\ net.chan[1] = "closed"
    /\ ui.lastError = MsgChannel
    /\ ui.statusLog = <<CONNECTED, ERROR, DISCONNECTED>>
    /\ Quiescent
    /\ dev.allStreams = {1}

\* C18: disconnect() can be called in every state.  It queues close() on the
\* session when there is one and touches no channel otherwise; it releases
\* what the client holds (stream, both contexts, video timer) and nulls the
\* fields; it reports DISCONNECTED; for a single connect() without
\* switchCamera() no handle and no tap is left at all.  In the state it
\* leaves, a second disconnect() changes nothing of the client, the devices or
\* the channels, raises no error and reports DISCONNECTED again.
C18_DisconnectIdempotent ==
    /\ [][hist'.lastEvent = "disconnect"
            => (/\ client.session # 0 => client.session \in net'.closeReq
                /\ client.session = 0 => net' = net
                /\ dev'.liveStreams \cap {client.stream} = {}
                /\ dev'.openCtx \cap
                       {client.inputAudioContext, client.outputAudioContext} = {}
                /\ ui'.errors = ui.errors)]_vars
    /\ [](hist.lastEvent = "disconnect"
            => (/\ ui.status = DISCONNECTED
                /\ client.session = 0
                /\ client.stream = 0
                /\ client.inputAudioContext = 0
                /\ client.outputAudioContext = 0
                /\ client.videoInterval = 0
                /\ dev.timers = 0
                /\ (tasks.nConnect <= 1 /\ tasks.nSwitch = 0)
                      => (OpenHandles(World) = 0 /\ dev.taps = {})
                /\ LET w == disconnect(World) IN
                   /\ w.client = client
                   /\ w.dev = dev
                   /\ w.net = net
                   /\ w.ui.status = ui.status
                   /\ w.ui.errors = ui.errors))

\* a second disconnect(), after the one that ended an open session
C18_CalledTwice ==
    /\ hist.lastEvent = "disconnect"
    /\ tasks.nConnect = 1
    /\ tasks.nSwitch = 0
    /\ tasks.nDisconnect = 2
    /\ net.chan[1] = "closing"
    /\ dev.allStreams = {1}

\* a fresh connect() after the disconnect() of an open session: the first
\* channel is closing at the client's request, and the last two reports are the
\* DISCONNECTED of the disconnect() and the CONNECTING of the second connect()
C25_Reconnecting ==
    /\ tasks.nConnect = 2
    /\ tasks.nDisconnect = 1
    /\ tasks.nSwitch = 0
    /\ net.chan[1] = "closing"
    /\ 1 \in net.closeReq
    /\ Len(ui.statusLog) >= 2
    /\ SubSeq(ui.statusLog, Len(ui.statusLog) - 1, Len(ui.statusLog))
          = <<DISCONNECTED, CONNECTING>>

\* C25: while the second session is connecting, a callback of the first
\* channel (its onclose) leaves the reported status, the open
\* audio contexts, the live streams and the taps as they were.
C25_LateCallbackIgnored ==
    [][(C25_Reconnecting /\ net'.chan[1] # net.chan[1])
          => (/\ ui'.status = ui.status
              /\ dev'.openCtx = dev.openCtx
              /\ dev'.liveStreams = dev.liveStreams
              /\ dev'.taps = dev.taps)]_vars

\* C26: in a session (one connect(), no disconnect()) at most one tap is
\* attached to the input, whatever the order of onopen and of the
\* continuations of switchCamera(): no chunk of the input is sent twice.
C26_OneTap ==
    (tasks.nConnect = 1 /\ tasks.nDisconnect = 0) => Cardinality(dev.taps) <= 1

\* C27: whenever the reported status is CONNECTED and no switchCamera() is
\* waiting for its stream, the client holds a live stream, its two audio
\* contexts are open and a tap is attached to that stream.
C27_ConnectedHoldsDevices ==
    (ui.status = CONNECTED /\ PendingSwitches = {})
        => /\ client.stream \in dev.liveStreams
           /\ client.inputAudioContext \in dev.openCtx
           /\ client.outputAudioContext \in dev.openCtx
           /\ \E t \in dev.taps : t.stream = client.stream

\* at most one video timer runs, and it is the one the client holds
C30_AtMostOneTimer ==
    dev.timers = (IF client.videoInterval # 0 THEN 1 ELSE 0)

\* startVideoLoop() starts no timer when the client holds no stream, and every
\* end of a session leaves no timer running
C30_StoppedAtEnd ==
    [][/\ (hist'.lastEvent = "startVideoLoop" /\ client.stream = 0)
            => dev'.timers = dev.timers
       /\ hist'.lastEvent \in {"disconnect", "onclose", "onerror", "connectCatch"}
            => dev'.timers = 0]_vars

\* C30: after a disconnect() that ended the only connect() and before any new
\* connect(), no video timer runs: a startVideoLoop() made as the application
\* makes it, when the reported status is CONNECTED, starts none.
C30_NoLoopAfterEnd ==
    [][(/\ tasks.nConnect = 1
        /\ hist.midConnectDisconnect
        /\ tasks.nSwitch = 0
        /\ ui.status = CONNECTED
        /\ hist'.lastEvent = "startVideoLoop")
            => dev'.timers = 0]_vars

(***************************************************************************)
(* Properties of the playback schedule (checked under SpecPlayback)        *)
(***************************************************************************)
\* C6: an audio payload that follows a message carrying the interruption flag
\* leaves nextStartTime at (device clock when it was handled + its duration).
C6_AfterInterruptionFlag ==
    (hist.lastEvent = "enqueue" /\ hist.last.afterFlag)
        => client.nextStartTime = hist.last.clock + hist.last.dur

\* the last playback operation is an enqueue and the one before it, on the
\* same output device, an interruption
C7_EnqueueAfterInterrupt ==
    /\ hist.last.kind = "enqueue"
    /\ hist.prev.kind = "interrupt"
    /\ hist.prev.ctx = hist.last.ctx

\* C7: the enqueue that follows an interrupt() on the same output device starts
\* at the device clock of the enqueue, not at a queued future time.
C7_StartsAtClock ==
    C7_EnqueueAfterInterrupt => hist.last.start = hist.last.clock

\* ... with audio scheduled before the interruption still unplayed at the enqueue
C7_QueuedAudioUnplayed ==
    C7_EnqueueAfterInterrupt /\ hist.prev.cut /\ hist.last.clock = hist.prev.until

\* C8: every enqueue starts at max(device clock, nextStartTime) and leaves
\* nextStartTime at start + duration; two enqueues in a row do not overlap, and
\* leave no gap when the clock has not passed the end of the first.
C8_Gapless ==
    /\ hist.last.kind = "enqueue"
          => (/\ hist.last.start = Max(hist.last.clock, hist.last.before)
              /\ client.nextStartTime = hist.last.start + hist.last.dur)
    /\ (hist.last.kind = "enqueue" /\ hist.prev.kind = "enqueue")
          => (/\ hist.last.start >= hist.prev.until
              /\ hist.last.clock <= hist.prev.until
                    => hist.last.start = hist.prev.until)

\* two enqueues in a row, the second arriving while the first is still queued
C8_BackToBack ==
    /\ hist.last.kind = "enqueue"
    /\ hist.prev.kind = "enqueue"
    /\ hist.last.clock < hist.prev.until
    /\ hist.last.dur # hist.last.start

\* C9: nextStartTime decreases only in the step that handles an interruption.
C9_Monotonic ==
    [][client'.nextStartTime < client.nextStartTime
          => hist'.lastEvent = "interrupt"]_vars

\* an interruption lowered a nextStartTime that enqueues had raised
C9_LoweredByInterrupt ==
    /\ hist.last.kind = "interrupt"
    /\ hist.prev.kind = "enqueue"
    /\ hist.last.before > client.nextStartTime
\* C14: the step in which a payload fails to decode changes nothing of the
\* client, the devices, the channels or what the caller was told (status,
\* error message), nextStartTime included; and in the state it leaves, every
\* well-formed payload is still decoded and scheduled.
C14_DecodeErrorDropsSegment ==
    /\ [][hist'.lastEvent = "decodeError"
            => (client' = client /\ dev' = dev /\ net' = net /\ ui' = ui)]_vars
    /\ [](hist.lastEvent = "decodeError"
            => \A m \in Messages :
                  (DecodeOk(m.audio) /\ ~m.interrupted)
                      => LET w == handleServerMessage(World, m) IN
                         /\ w.hist.lastEvent = "enqueue"
                         /\ w.hist.last.start = Max(dev.clock, client.nextStartTime)
                         /\ w.client.nextStartTime =
                                w.hist.last.start + Duration(m.audio))

\* a payload failed to decode while audio was queued beyond the device clock
C14_FailedWhileQueued ==
    /\ hist.lastEvent = "decodeError"
    /\ ui.status = CONNECTED
    /\ client.nextStartTime > dev.clock

(***************************************************************************)
(* Properties of the outbound frames (checked under SpecSend)              *)
(***************************************************************************)
\* C13: a frame whose send was attempted while the channel was not open
\* (pending, closing, failed, closed) is dropped: the channel never receives
\* it, so every frame received was captured while the channel was open.
C13_DroppedUnlessOpen ==
    \A k \in Ids : \A i \in 1..Len(net.received[k]) : net.received[k][i].at = "open"

\* the scenario of C17: one connect(), no disconnect(), no switchCamera(), no
\* failure of a device or of the channel, no close
C17_Undisturbed ==
    /\ tasks.nConnect = 1
    /\ tasks.nDisconnect = 0
    /\ tasks.nSwitch = 0
    /\ tasks.connect[1].error = ""
    /\ net.chan[1] \in {"none", "pending", "open"}

\* C17: an undisturbed connect() has reported CONNECTING, and CONNECTED after
\* it once its channel is open; CONNECTED is first reported by onopen only;
\* and once the channel is open the tap made by onopen is wired to it, so that
\* the chunk the input device produces next reaches the channel tagged
\* audio/pcm;rate=16000.
C17_ConnectThenTap ==
    /\ [](C17_Undisturbed
            => (/\ net.chan[1] # "open" => ui.statusLog = <<DISCONNECTED, CONNECTING>>
                /\ net.chan[1] = "open"
                      => (/\ ui.statusLog = <<DISCONNECTED, CONNECTING, CONNECTED>>
                          /\ dev.taps = {[ctx |-> client.inputAudioContext,
                                           stream |-> client.stream, chan |-> 1,
                                           origin |-> "onopen", n |-> 1]}
                          /\ client.inputAudioContext \in dev.openCtx
                          /\ client.stream \in dev.liveStreams)))
    /\ [][/\ (ui'.status = CONNECTED /\ ui.status # CONNECTED)
               => hist'.lastEvent = "onopen"
          /\ (C17_Undisturbed /\ net.chan[1] = "open"
                 /\ hist'.lastEvent = "audioProcess")
               => net'.received[1] =
                     Append(net.received[1],
                            [seq |-> net.captured + 1, mime |-> "audio/pcm;rate=16000",
                             at |-> "open"])
         ]_vars

\* the first chunk after onopen has reached the channel
C17_FirstChunkSent ==
    /\ C17_Undisturbed
    /\ hist.lastEvent = "audioProcess"
    /\ ui.status = CONNECTED
    /\ net.received[1] = <<[seq |-> 1, mime |-> "audio/pcm;rate=16000", at |-> "open"]>>

\* C20: every channel receives its frames in the order of their capture, the
\* frames captured while its handle was still pending included.
C20_CaptureOrder ==
    \A k \in Ids : \A i, j \in 1..Len(net.received[k]) :
        i < j => net.received[k][i].seq < net.received[k][j].seq

\* a picture and an audio chunk captured before the channel opened, both
\* delivered when it opened
C20_QueuedThenDelivered ==
    \E k \in Ids :
        /\ Len(net.received[k]) = 2
        /\ net.received[k][1].at = "pending"
        /\ net.received[k][2].at = "pending"
        /\ net.received[k][1].mime # net.received[k][2].mime

\* the scenario of C21: one connect(), no disconnect(), the channel open, and
\* no switchCamera() but the one in question
C21_Connected ==
    /\ tasks.nConnect = 1
    /\ tasks.nDisconnect = 0
    /\ tasks.nSwitch <= 1
    /\ net.chan[1] = "open"
    /\ ui.status = CONNECTED

\* C21: in a connected session, the call of switchCamera() flips the facing
\* mode and stops the stream held; the continuation of its getUserMedia holds
\* the new, live stream and leaves exactly one tap, on that stream and on the
\* session's channel; neither step touches a channel, the session handle or
\* the status; and a chunk captured after the switch reaches that channel.
C21_SwitchKeepsChannel ==
    [][/\ (C21_Connected /\ hist'.lastEvent = "switchCamera")
            => (/\ client'.currentFacingMode # client.currentFacingMode
                /\ client'.currentFacingMode \in {"user", "environment"}
                /\ client.stream \notin dev'.liveStreams
                /\ net' = net
                /\ client'.session = 1 /\ client.session = 1
                /\ ui'.status = CONNECTED)
       /\ (C21_Connected /\ hist'.lastEvent = "switchGotStream")
            => (/\ client'.stream # client.stream
                /\ client'.stream \in dev'.liveStreams
                /\ Cardinality(dev'.taps) = 1
                /\ \A t \in dev'.taps :
                      /\ t.stream = client'.stream
                      /\ t.chan = 1
                      /\ t.ctx = client'.inputAudioContext
                      /\ t.ctx \in dev'.openCtx
                /\ net' = net
                /\ client'.session = 1 /\ client.session = 1
                /\ ui'.status = CONNECTED)
       /\ (C21_Connected /\ tasks.nSwitch > 0 /\ PendingSwitches = {}
              /\ hist'.lastEvent = "audioProcess")
            => (/\ Len(net'.received[1]) = Len(net.received[1]) + 1
                /\ net'.received[1][Len(net'.received[1])].mime = AudioMime)
      ]_vars

\* a chunk of the tap made by the switch has reached the session's channel
C21_ChunkAfterSwitch ==
    /\ C21_Connected
    /\ tasks.nSwitch = 1
    /\ hist.lastEvent = "audioProcess"
    /\ client.currentFacingMode = "user"
    /\ dev.liveStreams = {2}
    /\ \A t \in dev.taps : t.origin = "switch" /\ t.stream = 2
    /\ Len(net.received[1]) = 1

\* the pictures among the frames queued on or received by a channel
C22_Pictures(n) ==
    {<<k, i>> \in Ids \X (1..MaxFrames + 1) :
        \/ i <= Len(n.received[k]) /\ n.received[k][i].mime = VideoMime
        \/ i <= Len(n.outbox[k]) /\ n.outbox[k][i].mime = VideoMime}

\* C22: a tick of the video timer without a picture, or without a session,
\* changes nothing: no frame, no error, no status, and the timer stays; a
\* timer is set only by a startVideoLoop() call, and a picture is queued or
\* sent only by a tick of a running timer.
C22_TickSkipped ==
    /\ [](client.videoInterval # 0
            => (/\ videoTick(World, FALSE) = World
                /\ client.session = 0 => videoTick(World, TRUE) = World))
    /\ [][/\ hist'.lastEvent = "videoSkip"
               => (client' = client /\ dev' = dev /\ net' = net /\ ui' = ui)
          /\ (client.videoInterval = 0 /\ client'.videoInterval # 0)
               => hist'.lastEvent = "startVideoLoop"
          /\ (C22_Pictures(net') \ C22_Pictures(net) # {}
                 /\ hist'.lastEvent # "onopen")
               => (hist'.lastEvent = "videoTick" /\ client.videoInterval # 0
                   /\ dev.timers = 1)
         ]_vars

\* a tick skipped for want of a session, its timer still running
C22_SkippedWithoutSession ==
    /\ hist.lastEvent = "videoSkip"
    /\ client.session = 0
    /\ client.videoInterval # 0
    /\ dev.timers = 1

(***************************************************************************)
(* Properties of the decoding order (checked under SpecDecode)             *)
(***************************************************************************)
\* C19: segments are scheduled in the order their messages arrived, also when
\* a later message arrived before the decode of an earlier one was resumed;
\* and of two segments with no interruption handled between their scheduling,
\* the later starts no earlier than the earlier one ends.
C19_ArrivalOrder ==
    Len(hist.sched) = 2
        => (/\ hist.sched[1].n < hist.sched[2].n
            /\ hist.sched[1].start + hist.sched[1].dur <= hist.sched[2].start)

\* two segments whose decodes were pending together, scheduled back to back
C19_DecodedTogether ==
    /\ Len(hist.sched) = 2
    /\ hist.sched[1].pending = 1
    /\ hist.sched[2].n = hist.sched[1].n + 1
    /\ hist.sched[2].start = hist.sched[1].start + hist.sched[1].dur
    /\ hist.sched[2].start > dev.clock

(***************************************************************************)
(* Properties of the sample conversions (checked under SpecPcm)            *)
(***************************************************************************)
\* C23: the converted sample lies in -32768..32767 and is the integer nearest
\* to the scaled value of the clamped sample (at most one half away from it).
C23_NearestInt16 ==
    hist.pcm.stage \in {"pcm16", "float"}
        => LET v == Scaled(hist.pcm.x)
               r == hist.pcm.out
           IN /\ r \in -32768..32767
              /\ \/ r = v.int /\ 2 * v.frac <= Pow2(v.bits)
                 \/ r = v.int + 1 /\ 2 * v.frac >= Pow2(v.bits)

\* C24: for a sample x in [-1, 1], the decoded value of its conversion is
\* within 1/32768 of x, that is |x * 32768 - pcm16| <= 1.
C24_RoundTrip ==
    (hist.pcm.stage = "float" /\ ~AboveOne(hist.pcm.x) /\ ~BelowMinusOne(hist.pcm.x))
        => LET v == Times(hist.pcm.x, DecodeScale)
               d == v.int - hist.pcm.back.num
           IN /\ hist.pcm.back.bits = 15
              /\ d >= -1
              /\ d <= 0 \/ (d = 1 /\ v.frac = 0)

(***************************************************************************)
(* Properties of channel establishment, checked under SpecEstablish        *)
(***************************************************************************)
\* the only connect() has run all its lines, nobody called disconnect() or
\* switchCamera(), and the channel is no longer being established
C29_NothingPending ==
    /\ tasks.nConnect = 1
    /\ tasks.nDisconnect = 0
    /\ tasks.nSwitch = 0
    /\ tasks.connect[1].pc = "done"
    /\ net.chan[1] # "pending"

\* C29: once nothing of a connect() is pending, the reported status is no
\* longer CONNECTING; after a rejected channel it is ERROR and every device
\* handle is released.
C29_ConnectSettles ==
    C29_NothingPending
        => /\ ui.status # CONNECTING
           /\ net.chan[1] = "rejected"
                 => (ui.status = ERROR /\ OpenHandles(World) = 0)

(***************************************************************************)
(* Properties of a second session, checked under SpecAgain                 *)
(***************************************************************************)
\* the last playback operation is the first one of the second session, the
\* first session being over (its channel closed)
C28_FirstOfSecondSession ==
    /\ tasks.nConnect = 2
    /\ tasks.nDisconnect = 1
    /\ net.chan[1] = "closed"
    /\ hist.lastEvent = "enqueue"
    /\ hist.last.kind = "enqueue"
    /\ hist.last.ctx = 4
    /\ hist.prev.ctx # 4

\* C28: the first segment of the second session starts at the clock of the new
\* output context at its arrival.
C28_NoLeakAcrossSessions ==
    C28_FirstOfSecondSession => hist.last.start = hist.last.clock
====
